---- MODULE Spec2Model ----
(***************************************************************************)
(* weather-rs: the provider clients (weather-api-services) and the command *)
(* handlers of the CLI (weather-rs), as a state machine.                   *)
(*                                                                         *)
(* Strings the code inspects character by character (urls, api keys,       *)
(* server messages) are sequences of one-character strings.  A response    *)
(* body is the JSON tree serde_json sees, or NotJson when the text is not  *)
(* JSON at all.  f32 values are sign / 24-bit mantissa / exponent records  *)
(* and f32 arithmetic rounds to nearest-even as the hardware does.         *)
(***************************************************************************)
EXTENDS Integers, Sequences, FiniteSets, TLC

VARIABLES
    cfg,        \* the persisted MainConfig (confy file)
    svc,        \* the provider client of the running process, or NoService
    pc,         \* position of the running get_weather_data call
    call,       \* arguments of the running call
    sent,       \* every HTTP request issued so far, in order
    response,   \* the response in flight (status known after send)
    result,     \* what the last operation returned
    runs        \* how many times the CLI has been run

vars == <<cfg, svc, pc, call, sent, response, result, runs>>

----------------------------------------------------------------------------
(* Bounds *)

MaxUrlLen == 2      \* longest url tried at construction
MaxCalls  == 2      \* requests in the log after which no new call starts
MaxDays   == 2      \* longest forecastday list in a history body
MaxHours  == 2      \* longest hour list in a forecast day
MaxRuns   == 3      \* CLI invocations in one behaviour

SeqsUpTo(S, n) == UNION {[1..k -> S] : k \in 0..n}

----------------------------------------------------------------------------
(* f32 *)

U8Max   == 255
U16Max  == 65535

RECURSIVE Pow2(_)
Pow2(n) == IF n = 0 THEN 1 ELSE 2 * Pow2(n - 1)

\* an f32 mantissa has 24 bits; the product of two is taken in 12-bit halves
TwoTo12 == Pow2(12)
TwoTo23 == Pow2(23)
TwoTo24 == Pow2(24)

F32Zero == [s |-> 1, m |-> 0, e |-> 0]

\* the f32 whose value is s * n * 2^e, for 0 <= n < 2^24 (exactly representable)
RECURSIVE F32Norm(_, _, _)
F32Norm(s, n, e) ==
    IF n = 0 THEN F32Zero
    ELSE IF n < TwoTo23 THEN F32Norm(s, 2 * n, e - 1)
    ELSE [s |-> s, m |-> n, e |-> e]

\* the JSON number n / 2^k read as f32
Dy(n, k) == IF n < 0 THEN F32Norm(-1, -n, -k) ELSE F32Norm(1, n, -k)

\* round m (24 or 25 bits, already shifted) with remainder rem out of 2*half
F32Round(s, m, e, rem, half) ==
    LET up == rem > half \/ (rem = half /\ m % 2 = 1)
        m1 == IF up THEN m + 1 ELSE m
    IN  IF m1 = TwoTo24 THEN [s |-> s, m |-> TwoTo23, e |-> e + 1]
        ELSE [s |-> s, m |-> m1, e |-> e]

\* a * b in f32: the exact 48-bit product in 12-bit limbs, rounded to nearest-even
F32Mul(a, b) ==
    IF a.m = 0 \/ b.m = 0 THEN [F32Zero EXCEPT !.s = a.s * b.s]
    ELSE
    LET a1 == a.m \div TwoTo12   a0 == a.m % TwoTo12
        b1 == b.m \div TwoTo12   b0 == b.m % TwoTo12
        cross  == a1 * b0 + a0 * b1
        lowsum == (cross % TwoTo12) * TwoTo12 + a0 * b0
        lo     == lowsum % TwoTo24
        hi     == a1 * b1 + cross \div TwoTo12 + lowsum \div TwoTo24
        s      == a.s * b.s
    IN  IF hi >= TwoTo23
        THEN F32Round(s, hi, a.e + b.e + 24, lo, TwoTo23)
        ELSE F32Round(s, 2 * hi + lo \div TwoTo23, a.e + b.e + 23,
                      lo % TwoTo23, TwoTo23 \div 2)

\* p / q in f32 for positive integers p, q < 2^24: long division to 24 bits
RECURSIVE F32DivBits(_, _, _, _)
F32DivBits(acc, r, q, e) ==
    IF acc >= TwoTo23 THEN F32Round(1, acc, e, 2 * r, q)
    ELSE LET r2 == 2 * r
         IN  IF r2 >= q THEN F32DivBits(2 * acc + 1, r2 - q, q, e - 1)
             ELSE F32DivBits(2 * acc, r2, q, e - 1)

F32DivInt(p, q) == F32DivBits(p \div q, p % q, q, 0)

\* a cast that drops the fraction and keeps the integer whatever its size
F32AsU16_Unclamped(a) ==
    IF a.m = 0 THEN 0
    ELSE IF a.e >= 0 THEN a.s * a.m
    ELSE IF -a.e > 24 THEN 0
    ELSE a.s * (a.m \div Pow2(-a.e))

\* Rust's `x as u16` on f32: truncate toward zero, saturate at the ends
F32AsU16(a) ==
    IF a.m = 0 \/ a.s < 0 THEN 0
    ELSE IF a.e >= 0 THEN U16Max
    ELSE IF -a.e > 24 THEN 0
    ELSE LET t == a.m \div Pow2(-a.e)
         IN  IF t > U16Max THEN U16Max ELSE t

----------------------------------------------------------------------------
(* Providers, strings, errors *)

Providers == {"OpenWeather", "WeatherApi", "AccuWeather", "AerisWeather"}

NOT_IMPLEMENTED_PROVIDERS == {"AccuWeather", "AerisWeather"}

ImplementedProviders == Providers \ NOT_IMPLEMENTED_PROVIDERS

Chars    == {"a", "/"}
Urls     == SeqsUpTo(Chars, MaxUrlLen)
ApiKeys  == {<<>>, <<"k">>}
Addresses == {"Kyiv", "Invalid City"}

\* Option<String>: None, or Some(s) as the one-element tuple <<s>>
None == <<>>
Some(v) == <<v>>
Dates == {None, Some("2023-10-15"), Some("2023-10-17 00:00"), Some("InvalidDate")}

NoData    == [none |-> TRUE]
NoResult  == [kind |-> "None", err |-> "", msg |-> <<>>, data |-> NoData]
Ok(d)     == [kind |-> "Ok", err |-> "", msg |-> <<>>, data |-> d]
Err(e, m) == [kind |-> "Err", err |-> e, msg |-> m, data |-> NoData]
\* an unwrap() on None: the thread panics, nothing is returned to the caller
Panicked  == [kind |-> "Panic", err |-> "", msg |-> <<>>, data |-> NoData]

NoService  == [provider |-> "none", url |-> <<>>, api_key |-> <<>>]
\* call: the operation in progress or just finished, with its arguments
NoCall     == [op |-> "none"]
NewCall(p, url, api_key) ==
    [op |-> "new", provider |-> p, url |-> url, api_key |-> api_key]
\* sent0: the number of requests issued before the call began
DataCall(address, date, n) ==
    [op |-> "get_weather_data", address |-> address, date |-> date, sent0 |-> n]
InfoCall(p, address, date, n) ==
    [op |-> "get_weather_info", provider |-> p, address |-> address,
     date |-> date, sent0 |-> n]
NoResponse == [status |-> 0, body |-> [valid |-> FALSE, obj |-> [none |-> TRUE]]]

----------------------------------------------------------------------------
(* Client construction *)

ends_with(str, c) == Len(str) > 0 /\ str[Len(str)] = c

\* String::pop: drop the last character
pop(str) == SubSeq(str, 1, Len(str) - 1)

\* OpenWeatherApiService::new trimming every trailing '/' (trim_end_matches)
RECURSIVE TrimAll(_)
TrimAll(str) == IF ends_with(str, "/") THEN TrimAll(pop(str)) ELSE str

OpenWeatherApiService_new_TrimAll(url, api_key) ==
    IF url = <<>> \/ api_key = <<>> THEN Err("Creation", <<>>)
    ELSE Ok([provider |-> "OpenWeather", url |-> TrimAll(url), api_key |-> api_key])

\* OpenWeatherApiService::new testing the url alone
OpenWeatherApiService_new_UrlOnly(url, api_key) ==
    IF url = <<>> THEN Err("Creation", <<>>)
    ELSE Ok([provider |-> "OpenWeather",
             url |-> IF ends_with(url, "/") THEN pop(url) ELSE url,
             api_key |-> api_key])

\* the value of OpenWeatherApiService::new: an error, or the client
OpenWeatherApiService_new(url, api_key) ==
    IF url = <<>> \/ api_key = <<>> THEN Err("Creation", <<>>)
    ELSE Ok([provider |-> "OpenWeather",
             url |-> IF ends_with(url, "/") THEN pop(url) ELSE url,
             api_key |-> api_key])

\* WeatherApiService::new rejecting only the case where both are empty
WeatherApiService_new_BothEmpty(url, api_key) ==
    IF url = <<>> /\ api_key = <<>> THEN Err("Creation", <<>>)
    ELSE Ok([provider |-> "WeatherApi",
             url |-> IF ends_with(url, "/") THEN pop(url) ELSE url,
             api_key |-> api_key])

\* the value of WeatherApiService::new
WeatherApiService_new(url, api_key) ==
    IF url = <<>> \/ api_key = <<>> THEN Err("Creation", <<>>)
    ELSE Ok([provider |-> "WeatherApi",
             url |-> IF ends_with(url, "/") THEN pop(url) ELSE url,
             api_key |-> api_key])

ServiceNew(p, url, api_key) ==
    IF p = "OpenWeather" THEN OpenWeatherApiService_new(url, api_key)
    ELSE WeatherApiService_new(url, api_key)

----------------------------------------------------------------------------
(* Date parsing *)

\* the environment of a parse: the local zone's offset east of UTC and the
\* local time of day, both in seconds
TzOffsets == {0, 3600}
NowTimes  == {0, 3600}

\* dateparser::parse on the date strings of Dates, in the local time zone; a
\* string without a time of day takes the current one.  ok = FALSE when the
\* string matches no format.
parse_datetime_from_str(d, tz, now) ==
    CASE d = "2023-10-15"       -> [ok |-> TRUE, timestamp |-> 1697328000 + now - tz]
      [] d = "2023-10-17 00:00" -> [ok |-> TRUE, timestamp |-> 1697500800 - tz]
      [] OTHER                  -> [ok |-> FALSE, timestamp |-> 0]

----------------------------------------------------------------------------
(* Response bodies: JSON trees *)

NotJson == [valid |-> FALSE, obj |-> [none |-> TRUE]]
Json(o) == [valid |-> TRUE, obj |-> o]

Has(o, keys) == keys \subseteq DOMAIN o

U8  == 0..U8Max
U16 == 0..U16Max

Messages == {<<"n", "o">>, <<>>}

\* WeatherApi readings (the WeatherCurrent shape)
ReadingA == [temp_c |-> Dy(51, 1), condition |-> [text |-> "Partly Cloudy"],
             wind_kph |-> Dy(36, 0), pressure_mb |-> Dy(1010, 0),
             humidity |-> 50, vis_km |-> Dy(10, 0)]
ReadingB == [temp_c |-> Dy(-3, 0), condition |-> [text |-> "Rainy"],
             wind_kph |-> Dy(25, 1), pressure_mb |-> Dy(4021, 2),
             humidity |-> 60, vis_km |-> Dy(129, 4)]
Readings == {ReadingA, ReadingB}

\* readings that do not fit the schema: a missing field, a u8 out of range
ReadingNoHumidity  == [temp_c |-> Dy(51, 1), condition |-> [text |-> "Sunny"],
                       wind_kph |-> Dy(36, 0), pressure_mb |-> Dy(1010, 0),
                       vis_km |-> Dy(10, 0)]
ReadingBigHumidity == [ReadingA EXCEPT !.humidity = 300]

HourLists == SeqsUpTo(Readings, MaxHours)
DayLists  == SeqsUpTo({[hour |-> h] : h \in HourLists}, MaxDays)

\* the history bodies a server answers with: no day, a last day without
\* hours, one reading, and readings that differ between days and hours
SomeDayLists ==
    {<<>>,
     <<[hour |-> <<>>]>>,
     <<[hour |-> <<ReadingA>>], [hour |-> <<>>]>>,
     <<[hour |-> <<ReadingA>>]>>,
     <<[hour |-> <<ReadingB, ReadingA>>]>>,
     <<[hour |-> <<ReadingA>>], [hour |-> <<ReadingB, ReadingA>>]>>}

WeatherApiBodies ==
    {Json([current |-> r]) :
        r \in Readings \cup {ReadingNoHumidity, ReadingBigHumidity}}
    \cup {Json([forecast |-> [forecastday |-> d]]) : d \in SomeDayLists}
    \cup {Json([forecast |-> [forecastday |-> <<[hour |-> <<r>>]>>]]) :
            r \in {ReadingNoHumidity, ReadingBigHumidity}}
    \cup {Json([forecast |-> [days |-> <<>>]])}
    \cup {Json([error |-> [code |-> 1006, message |-> m]]) : m \in Messages}
    \cup {Json([error |-> [code |-> 70000, message |-> <<"n", "o">>]]),
          Json([error |-> [code |-> 1006]])}

OpenWeatherGood(w) ==
    [main |-> [temp |-> Dy(51, 1), humidity |-> 50, pressure |-> 1010],
     weather |-> w, visibility |-> 10000, wind |-> [speed |-> Dy(10, 0)]]

WeatherLists == {<<>>, <<[description |-> "Partly Cloudy"]>>,
                 <<[description |-> "Rainy"], [description |-> "Partly Cloudy"]>>,
                 <<[description |-> "Partly Cloudy"], [description |-> "Rainy"]>>}

OpenWeatherBodies ==
    {Json(OpenWeatherGood(w)) : w \in WeatherLists}
    \cup {Json([OpenWeatherGood(<<>>) EXCEPT !.main.humidity = 300]),
          Json([OpenWeatherGood(<<>>) EXCEPT !.main.pressure = 70000]),
          Json([OpenWeatherGood(<<>>) EXCEPT !.visibility = -1]),
          Json([OpenWeatherGood(<<>>) EXCEPT !.weather = <<[text |-> "Rainy"]>>]),
          Json([main |-> [temp |-> Dy(51, 1), humidity |-> 50, pressure |-> 1010],
                weather |-> <<>>, wind |-> [speed |-> Dy(10, 0)]])}
    \cup {Json([cod |-> "404", message |-> m]) : m \in Messages}
    \cup {Json([cod |-> "404"])}

\* a body that fits a success schema and an error schema at once (serde
\* ignores the fields a schema does not name)
BothBodies ==
    {Json([main |-> [temp |-> Dy(51, 1), humidity |-> 50, pressure |-> 1010],
           weather |-> <<>>, visibility |-> 10000, wind |-> [speed |-> Dy(10, 0)],
           cod |-> "200", message |-> <<"n", "o">>]),
     Json([current |-> ReadingA,
           error |-> [code |-> 1006, message |-> <<"n", "o">>]])}

\* 200 OK, another success code, two error codes
StatusOK == 200
Statuses == {200, 201, 404, 500}

----------------------------------------------------------------------------
(* Deserialization: serde_json::from_str::<T>.  Each returns ok = FALSE for
   a body that is not JSON or does not fit T (a missing field, an integer
   out of the field's range), and otherwise the struct with T's fields. *)

ParseFail == [ok |-> FALSE, v |-> NoData]
Parsed(v) == [ok |-> TRUE, v |-> v]

\* OpenWeatherData { main { temp, humidity: u8, pressure: u16 },
\*                   weather: Vec<{description}>, visibility: u16, wind { speed } }
from_str_OpenWeatherData(b) ==
    IF /\ b.valid
       /\ Has(b.obj, {"main", "weather", "visibility", "wind"})
       /\ Has(b.obj.main, {"temp", "humidity", "pressure"})
       /\ b.obj.main.humidity \in U8
       /\ b.obj.main.pressure \in U16
       /\ \A i \in DOMAIN b.obj.weather : Has(b.obj.weather[i], {"description"})
       /\ b.obj.visibility \in U16
       /\ Has(b.obj.wind, {"speed"})
    THEN Parsed([main |-> [temp |-> b.obj.main.temp,
                           humidity |-> b.obj.main.humidity,
                           pressure |-> b.obj.main.pressure],
                 weather |-> [i \in DOMAIN b.obj.weather |->
                                [description |-> b.obj.weather[i].description]],
                 visibility |-> b.obj.visibility,
                 wind |-> [speed |-> b.obj.wind.speed]])
    ELSE ParseFail

\* OpenWeatherErrorData { cod: String, message: String }
from_str_OpenWeatherErrorData(b) ==
    IF b.valid /\ Has(b.obj, {"cod", "message"})
    THEN Parsed([cod |-> b.obj.cod, message |-> b.obj.message])
    ELSE ParseFail

\* WeatherCurrent { temp_c, condition { text }, wind_kph, pressure_mb,
\*                  humidity: u8, vis_km }
FitsWeatherCurrent(o) ==
    /\ Has(o, {"temp_c", "condition", "wind_kph", "pressure_mb", "humidity", "vis_km"})
    /\ Has(o.condition, {"text"})
    /\ o.humidity \in U8

WeatherCurrent(o) ==
    [temp_c |-> o.temp_c, condition |-> [text |-> o.condition.text],
     wind_kph |-> o.wind_kph, pressure_mb |-> o.pressure_mb,
     humidity |-> o.humidity, vis_km |-> o.vis_km]

\* WeatherApiData { current: WeatherCurrent }
from_str_WeatherApiData(b) ==
    IF b.valid /\ Has(b.obj, {"current"}) /\ FitsWeatherCurrent(b.obj.current)
    THEN Parsed([current |-> WeatherCurrent(b.obj.current)])
    ELSE ParseFail

\* WeatherApiHistoryData { forecast { forecastday: Vec<{ hour: Vec<WeatherCurrent> }> } }
from_str_WeatherApiHistoryData(b) ==
    IF /\ b.valid
       /\ Has(b.obj, {"forecast"})
       /\ Has(b.obj.forecast, {"forecastday"})
       /\ \A i \in DOMAIN b.obj.forecast.forecastday :
            /\ Has(b.obj.forecast.forecastday[i], {"hour"})
            /\ \A j \in DOMAIN b.obj.forecast.forecastday[i].hour :
                 FitsWeatherCurrent(b.obj.forecast.forecastday[i].hour[j])
    THEN Parsed([forecast |-> [forecastday |->
            [i \in DOMAIN b.obj.forecast.forecastday |->
                [hour |-> [j \in DOMAIN b.obj.forecast.forecastday[i].hour |->
                    WeatherCurrent(b.obj.forecast.forecastday[i].hour[j])]]]]])
    ELSE ParseFail

\* WeatherApiErrorData { error: DataError { code: u16, message: String } }
from_str_WeatherApiErrorData(b) ==
    IF /\ b.valid
       /\ Has(b.obj, {"error"})
       /\ Has(b.obj.error, {"code", "message"})
       /\ b.obj.error.code \in U16
    THEN Parsed([error |-> [code |-> b.obj.error.code,
                            message |-> b.obj.error.message]])
    ELSE ParseFail

----------------------------------------------------------------------------
(* Canonicalization *)

\* 1000.0 / 3600.0 in f32
KphFactor == F32DivInt(1000, 3600)

\* km_per_hour_to_m_per_sec multiplying by the literal 0.2778
km_per_hour_to_m_per_sec_Literal(km_per_hour) ==
    F32Mul(km_per_hour, Dy(9321421, 25))

\* km_per_hour * (1000.0 / 3600.0)
km_per_hour_to_m_per_sec(km_per_hour) == F32Mul(km_per_hour, KphFactor)

\* km_to_m casting to u16 before it multiplies: (km as u16) * 1000
km_to_m_CastFirst(km) == (F32AsU16(km) * 1000) % (U16Max + 1)

\* (km * 1000.0) as u16
km_to_m(km) == F32AsU16(F32Mul(km, Dy(1000, 0)))

\* the OpenWeather conversion naming a missing description "unknown"
From_OpenWeatherData_Unknown(d) ==
    [temp |-> d.main.temp,
     humidity |-> d.main.humidity,
     pressure |-> d.main.pressure,
     wind_speed |-> d.wind.speed,
     visibility |-> d.visibility,
     description |-> IF DOMAIN d.weather = {} THEN "unknown"
                     ELSE d.weather[Len(d.weather)].description]

\* the OpenWeather conversion describing the weather by the first entry
From_OpenWeatherData_First(d) ==
    [temp |-> d.main.temp,
     humidity |-> d.main.humidity,
     pressure |-> d.main.pressure,
     wind_speed |-> d.wind.speed,
     visibility |-> d.visibility,
     description |-> IF DOMAIN d.weather = {} THEN ""
                     ELSE d.weather[1].description]

\* impl From<OpenWeatherData> for WeatherData; weather.pop() takes the last entry
From_OpenWeatherData(d) ==
    [temp |-> d.main.temp,
     humidity |-> d.main.humidity,
     pressure |-> d.main.pressure,
     wind_speed |-> d.wind.speed,
     visibility |-> d.visibility,
     description |-> IF DOMAIN d.weather = {} THEN ""
                     ELSE d.weather[Len(d.weather)].description]

FromCurrent(current) ==
    [temp |-> current.temp_c,
     humidity |-> current.humidity,
     pressure |-> F32AsU16(current.pressure_mb),
     wind_speed |-> km_per_hour_to_m_per_sec(current.wind_kph),
     visibility |-> km_to_m(current.vis_km),
     description |-> current.condition.text]

\* impl From<WeatherApiData> for WeatherData
From_WeatherApiData(d) == FromCurrent(d.current)

\* the history conversion reading the first day (remove(0) for pop())
From_WeatherApiHistoryData_FirstDay(d) ==
    LET days == d.forecast.forecastday IN
    IF DOMAIN days = {} THEN Panicked
    ELSE LET currents == days[1].hour IN
         IF DOMAIN currents = {} THEN Panicked
         ELSE Ok(FromCurrent(currents[1]))

\* impl From<WeatherApiHistoryData> for WeatherData: forecastday.pop().unwrap()
\* is the last day, hour.get(0).unwrap() its first hour; either unwrap panics
\* on an empty list
From_WeatherApiHistoryData(d) ==
    LET days == d.forecast.forecastday IN
    IF DOMAIN days = {} THEN Panicked
    ELSE LET currents == days[Len(days)].hour IN
         IF DOMAIN currents = {} THEN Panicked
         ELSE Ok(FromCurrent(currents[1]))

----------------------------------------------------------------------------
(* get_weather_data *)

\* owo_colors' yellow(): the text between the ANSI codes ESC[33m and ESC[39m
Yellow(str) == <<"ESC", "[", "3", "3", "m">> \o str \o <<"ESC", "[", "3", "9", "m">>

\* OpenWeatherApiService::get_weather_data attaching dt to every request
OpenWeatherRequest_AlwaysDt(s, address, date, timestamp) ==
    [method |-> "GET",
     url    |-> s.url,
     params |-> [q |-> address, units |-> "metric", appid |-> s.api_key,
                 dt |-> timestamp]]

\* the request OpenWeatherApiService::get_weather_data builds
OpenWeatherRequest(s, address, date, timestamp) ==
    [method |-> "GET",
     url    |-> s.url,
     params |-> IF date = None
                THEN [q |-> address, units |-> "metric", appid |-> s.api_key]
                ELSE [q |-> address, units |-> "metric", appid |-> s.api_key,
                      dt |-> timestamp]]

\* WeatherApiService::get_weather_data asking current.json whatever the date
WeatherApiRequest_AlwaysCurrent(s, address, date, timestamp) ==
    [method |-> "GET",
     url    |-> s.url \o <<"/", "current.json">>,
     params |-> IF date = None
                THEN [q |-> address, key |-> s.api_key]
                ELSE [q |-> address, key |-> s.api_key, unixdt |-> timestamp]]

\* the request WeatherApiService::get_weather_data builds
WeatherApiRequest(s, address, date, timestamp) ==
    [method |-> "GET",
     url    |-> IF date = None THEN s.url \o <<"/", "current.json">>
                ELSE s.url \o <<"/", "history.json">>,
     params |-> IF date = None
                THEN [q |-> address, key |-> s.api_key]
                ELSE [q |-> address, key |-> s.api_key, unixdt |-> timestamp]]

\* what get_weather_data returns for an unparseable date
DateTimeParseError(s, date) ==
    IF s.provider = "OpenWeather" THEN Err("DateTimeParse", <<>>)
    ELSE Err("DateTimeParse", Yellow(date))

\* OpenWeatherApiService::get_weather_data reporting the cod field
OpenWeatherInterpret_Cod(status_code, response_body) ==
    IF status_code = StatusOK
    THEN LET d == from_str_OpenWeatherData(response_body)
         IN  IF d.ok THEN Ok(From_OpenWeatherData(d.v)) ELSE Err("JsonParse", <<>>)
    ELSE LET e == from_str_OpenWeatherErrorData(response_body)
         IN  IF e.ok THEN Err("Server", <<e.v.cod>>) ELSE Err("JsonParse", <<>>)

\* OpenWeatherApiService::get_weather_data with unwrap_or_default() on the
\* parsed success body
OpenWeatherInterpret_Default(status_code, response_body) ==
    IF status_code = StatusOK
    THEN LET d == from_str_OpenWeatherData(response_body)
         IN  IF d.ok THEN Ok(From_OpenWeatherData(d.v))
             ELSE Ok([temp |-> F32Zero, humidity |-> 0, pressure |-> 0,
                      wind_speed |-> F32Zero, visibility |-> 0, description |-> ""])
    ELSE LET e == from_str_OpenWeatherErrorData(response_body)
         IN  IF e.ok THEN Err("Server", e.v.message) ELSE Err("JsonParse", <<>>)

\* OpenWeatherApiService::get_weather_data after the body is read
OpenWeatherInterpret(status_code, response_body) ==
    IF status_code = StatusOK
    THEN LET d == from_str_OpenWeatherData(response_body)
         IN  IF d.ok THEN Ok(From_OpenWeatherData(d.v)) ELSE Err("JsonParse", <<>>)
    ELSE LET e == from_str_OpenWeatherErrorData(response_body)
         IN  IF e.ok THEN Err("Server", e.v.message) ELSE Err("JsonParse", <<>>)

\* WeatherApiService::get_weather_data branching on status.is_success()
WeatherApiInterpret_IsSuccess(status_code, response_body, date) ==
    IF status_code \in 200..299
    THEN IF date # None
         THEN LET d == from_str_WeatherApiHistoryData(response_body)
              IN  IF d.ok THEN From_WeatherApiHistoryData(d.v)
                  ELSE Err("JsonParse", <<>>)
         ELSE LET d == from_str_WeatherApiData(response_body)
              IN  IF d.ok THEN Ok(From_WeatherApiData(d.v))
                  ELSE Err("JsonParse", <<>>)
    ELSE LET e == from_str_WeatherApiErrorData(response_body)
         IN  IF e.ok THEN Err("Server", Yellow(e.v.error.message))
             ELSE Err("JsonParse", <<>>)

\* WeatherApiService::get_weather_data reporting an error body it cannot read
\* as a Server error without a message
WeatherApiInterpret_Unknown(status_code, response_body, date) ==
    IF status_code = StatusOK
    THEN IF date # None
         THEN LET d == from_str_WeatherApiHistoryData(response_body)
              IN  IF d.ok THEN From_WeatherApiHistoryData(d.v)
                  ELSE Err("JsonParse", <<>>)
         ELSE LET d == from_str_WeatherApiData(response_body)
              IN  IF d.ok THEN Ok(From_WeatherApiData(d.v))
                  ELSE Err("JsonParse", <<>>)
    ELSE LET e == from_str_WeatherApiErrorData(response_body)
         IN  IF e.ok THEN Err("Server", Yellow(e.v.error.message))
             ELSE Err("Server", Yellow(<<>>))

\* WeatherApiService::get_weather_data after the body is read
WeatherApiInterpret(status_code, response_body, date) ==
    IF status_code = StatusOK
    THEN IF date # None
         THEN LET d == from_str_WeatherApiHistoryData(response_body)
              IN  IF d.ok THEN From_WeatherApiHistoryData(d.v)
                  ELSE Err("JsonParse", <<>>)
         ELSE LET d == from_str_WeatherApiData(response_body)
              IN  IF d.ok THEN Ok(From_WeatherApiData(d.v))
                  ELSE Err("JsonParse", <<>>)
    ELSE LET e == from_str_WeatherApiErrorData(response_body)
         IN  IF e.ok THEN Err("Server", Yellow(e.v.error.message))
             ELSE Err("JsonParse", <<>>)

\* the bodies a server of provider p is made to answer with
BodiesFor(p) ==
    {NotJson} \cup BothBodies
    \cup (IF p = "OpenWeather" THEN OpenWeatherBodies ELSE WeatherApiBodies)

----------------------------------------------------------------------------------------------------------------------------------------------------------------------------------------------------
(* Configuration and the handlers of the CLI *)

ProviderConfig(url, api_key) == [url |-> url, api_key |-> api_key]

\* MainConfig::default(); the four default urls are distinct and none ends in '/'
DefaultConfig ==
    [selected_provider |-> "OpenWeather",
     open_weather  |-> ProviderConfig(<<"o">>, None),
     weather_api   |-> ProviderConfig(<<"w">>, None),
     accu_weather  |-> ProviderConfig(<<"c">>, None),
     aeris_weather |-> ProviderConfig(<<"e">>, None)]

ConfigOf(config, provider) ==
    CASE provider = "OpenWeather"  -> config.open_weather
      [] provider = "WeatherApi"   -> config.weather_api
      [] provider = "AccuWeather"  -> config.accu_weather
      [] provider = "AerisWeather" -> config.aeris_weather

\* configure_provider making the configured provider the selected one as well
configure_provider_Selects(config, provider, url, api_key) ==
    LET provider_config ==
            ProviderConfig(IF url = None THEN ConfigOf(config, provider).url
                           ELSE url[1],
                           Some(api_key))
        selected == [config EXCEPT !.selected_provider = provider]
    IN  CASE provider = "OpenWeather"  -> [selected EXCEPT !.open_weather = provider_config]
          [] provider = "WeatherApi"   -> [selected EXCEPT !.weather_api = provider_config]
          [] provider = "AccuWeather"  -> [selected EXCEPT !.accu_weather = provider_config]
          [] provider = "AerisWeather" -> [selected EXCEPT !.aeris_weather = provider_config]

\* configure_provider storing the url without its trailing '/'
configure_provider_Trimmed(config, provider, url, api_key) ==
    LET given == IF url = None THEN ConfigOf(config, provider).url ELSE url[1]
        provider_config ==
            ProviderConfig(IF ends_with(given, "/") THEN pop(given) ELSE given,
                           Some(api_key))
    IN  CASE provider = "OpenWeather"  -> [config EXCEPT !.open_weather = provider_config]
          [] provider = "WeatherApi"   -> [config EXCEPT !.weather_api = provider_config]
          [] provider = "AccuWeather"  -> [config EXCEPT !.accu_weather = provider_config]
          [] provider = "AerisWeather" -> [config EXCEPT !.aeris_weather = provider_config]

\* handlers::configure_provider
configure_provider(config, provider, url, api_key) ==
    LET provider_config ==
            ProviderConfig(IF url = None THEN ConfigOf(config, provider).url
                           ELSE url[1],
                           Some(api_key))
    IN  CASE provider = "OpenWeather"  -> [config EXCEPT !.open_weather = provider_config]
          [] provider = "WeatherApi"   -> [config EXCEPT !.weather_api = provider_config]
          [] provider = "AccuWeather"  -> [config EXCEPT !.accu_weather = provider_config]
          [] provider = "AerisWeather" -> [config EXCEPT !.aeris_weather = provider_config]

\* select_provider refusing a provider that is not implemented
select_provider_Implemented(config, provider) ==
    IF provider \in NOT_IMPLEMENTED_PROVIDERS THEN config
    ELSE [config EXCEPT !.selected_provider = provider]

\* handlers::select_provider
select_provider(config, provider) == [config EXCEPT !.selected_provider = provider]

\* get_weather_info building a client for AccuWeather from its configuration
WeatherApiOf_AccuBuilt(provider, config) ==
    CASE provider = "OpenWeather" ->
            IF config.open_weather.api_key = None THEN Err("ProviderConfig", <<>>)
            ELSE OpenWeatherApiService_new(config.open_weather.url,
                                           config.open_weather.api_key[1])
      [] provider = "WeatherApi" ->
            IF config.weather_api.api_key = None THEN Err("ProviderConfig", <<>>)
            ELSE WeatherApiService_new(config.weather_api.url,
                                       config.weather_api.api_key[1])
      [] provider = "AccuWeather"  ->
            IF config.accu_weather.api_key = None
            THEN Err("ProviderNotImplemented", <<>>)
            ELSE OpenWeatherApiService_new(config.accu_weather.url,
                                           config.accu_weather.api_key[1])
      [] provider = "AerisWeather" -> Err("ProviderNotImplemented", <<>>)

\* get_weather_info taking an unset api key as the empty key
WeatherApiOf_DefaultKey(provider, config) ==
    CASE provider = "OpenWeather" ->
            OpenWeatherApiService_new(config.open_weather.url,
                IF config.open_weather.api_key = None THEN <<>>
                ELSE config.open_weather.api_key[1])
      [] provider = "WeatherApi" ->
            WeatherApiService_new(config.weather_api.url,
                IF config.weather_api.api_key = None THEN <<>>
                ELSE config.weather_api.api_key[1])
      [] provider = "AccuWeather"  -> Err("ProviderNotImplemented", <<>>)
      [] provider = "AerisWeather" -> Err("ProviderNotImplemented", <<>>)

\* the `weather_api` of get_weather_info: the boxed client, or the error
\* that ends the call
WeatherApiOf(provider, config) ==
    CASE provider = "OpenWeather" ->
            IF config.open_weather.api_key = None THEN Err("ProviderConfig", <<>>)
            ELSE OpenWeatherApiService_new(config.open_weather.url,
                                           config.open_weather.api_key[1])
      [] provider = "WeatherApi" ->
            IF config.weather_api.api_key = None THEN Err("ProviderConfig", <<>>)
            ELSE WeatherApiService_new(config.weather_api.url,
                                       config.weather_api.api_key[1])
      [] provider = "AccuWeather"  -> Err("ProviderNotImplemented", <<>>)
      [] provider = "AerisWeather" -> Err("ProviderNotImplemented", <<>>)

----------------
(* Actions of the library *)

Init ==
    /\ cfg = DefaultConfig
    /\ svc = NoService
    /\ pc = "idle"
    /\ call = NoCall
    /\ sent = <<>>
    /\ response = NoResponse
    /\ result = NoResult
    /\ runs = 0

\* OpenWeatherApiService::new / WeatherApiService::new
New(p, url, api_key) ==
    /\ pc = "idle"
    /\ svc = NoService
    /\ call' = NewCall(p, url, api_key)
    /\ LET r == ServiceNew(p, url, api_key)
       IN  /\ svc' = IF r.kind = "Ok" THEN r.data ELSE NoService
           /\ result' = r
    /\ UNCHANGED <<cfg, pc, sent, response, runs>>

\* get_weather_data sending the request before it looks at the parse result
StartCall_SendFirst(s, address, date, tz, now) ==
    LET parsed == IF date = None THEN [ok |-> TRUE, timestamp |-> 0]
                  ELSE parse_datetime_from_str(date[1], tz, now)
        request == IF s.provider = "OpenWeather"
                   THEN OpenWeatherRequest(s, address, date, parsed.timestamp)
                   ELSE WeatherApiRequest(s, address, date, parsed.timestamp)
    IN  /\ response' = NoResponse
        /\ sent' = Append(sent, request)
        /\ IF parsed.ok
           THEN pc' = "send" /\ result' = NoResult
           ELSE pc' = "done" /\ result' = DateTimeParseError(s, date)

\* get_weather_data of client s up to the first await: parse the date, build
\* the request and send it
StartCall(s, address, date, tz, now) ==
    LET parsed == IF date = None THEN [ok |-> TRUE, timestamp |-> 0]
                  ELSE parse_datetime_from_str(date[1], tz, now)
        request == IF s.provider = "OpenWeather"
                   THEN OpenWeatherRequest(s, address, date, parsed.timestamp)
                   ELSE WeatherApiRequest(s, address, date, parsed.timestamp)
    IN  /\ response' = NoResponse
        /\ IF parsed.ok
           THEN /\ sent' = Append(sent, request)
                /\ pc' = "send"
                /\ result' = NoResult
           ELSE /\ sent' = sent
                /\ pc' = "done"
                /\ result' = DateTimeParseError(s, date)

GetWeatherData(address, date, tz, now) ==
    /\ pc = "idle"
    /\ svc # NoService
    /\ Len(sent) < MaxCalls
    /\ call' = DataCall(address, date, Len(sent))
    /\ StartCall(svc, address, date, tz, now)
    /\ UNCHANGED <<cfg, svc, runs>>

\* a failed send() tried once more before the error is reported
SendFails_Retry ==
    /\ pc = "send"
    /\ IF Len(sent) = call.sent0 + 1
       THEN /\ sent' = Append(sent, sent[Len(sent)])
            /\ UNCHANGED <<pc, result>>
       ELSE /\ pc' = "done"
            /\ result' = Err("Request", <<>>)
            /\ UNCHANGED sent
    /\ UNCHANGED <<cfg, svc, call, response, runs>>

\* a failed send() passed over: the call goes on to read a body
SendFails_ReadBody ==
    /\ pc = "send"
    /\ pc' = "text"
    /\ UNCHANGED <<cfg, svc, call, sent, response, result, runs>>

\* send().await fails: the Request error
SendFails ==
    /\ pc = "send"
    /\ pc' = "done"
    /\ result' = Err("Request", <<>>)
    /\ UNCHANGED <<cfg, svc, call, sent, response, runs>>

\* send().await returns a response with its status line
SendCompletes(status) ==
    /\ pc = "send"
    /\ pc' = "text"
    /\ response' = [response EXCEPT !.status = status]
    /\ UNCHANGED <<cfg, svc, call, sent, result, runs>>

\* text().await fails: the BodyText error
TextFails ==
    /\ pc = "text"
    /\ pc' = "done"
    /\ result' = Err("BodyText", <<>>)
    /\ UNCHANGED <<cfg, svc, call, sent, response, runs>>

\* what get_weather_data of client s returns once the body is read
Interpret(s, status_code, response_body, date) ==
    IF s.provider = "OpenWeather"
    THEN OpenWeatherInterpret(status_code, response_body)
    ELSE WeatherApiInterpret(status_code, response_body, date)

\* text().await returns the body; the rest of get_weather_data interprets it
TextCompletes(body) ==
    /\ pc = "text"
    /\ response' = [response EXCEPT !.body = body]
    /\ result' = Interpret(svc, response.status, body, call.date)
    /\ pc' = IF result'.kind = "Panic" THEN "aborted" ELSE "done"
    /\ UNCHANGED <<cfg, svc, call, sent, runs>>

\* a call that leaves the client without its api key
Return_KeyTaken ==
    /\ pc = "done"
    /\ call.op = "get_weather_data"
    /\ pc' = "idle"
    /\ call' = NoCall
    /\ response' = NoResponse
    /\ result' = NoResult
    /\ svc' = [svc EXCEPT !.api_key = <<>>]
    /\ UNCHANGED <<cfg, sent, runs>>

\* the caller takes the result; the client can be called again
Return ==
    /\ pc = "done"
    /\ call.op = "get_weather_data"
    /\ pc' = "idle"
    /\ call' = NoCall
    /\ response' = NoResponse
    /\ result' = NoResult
    /\ UNCHANGED <<cfg, svc, sent, runs>>

Next ==
    \/ \E p \in ImplementedProviders, url \in Urls, api_key \in ApiKeys :
            New(p, url, api_key)
    \/ \E address \in Addresses, date \in Dates, tz \in TzOffsets, now \in NowTimes :
            GetWeatherData(address, date, tz, now)
    \/ SendFails
    \/ \E status \in Statuses : SendCompletes(status)
    \/ TextFails
    \/ \E body \in BodiesFor(svc.provider) : TextCompletes(body)
    \/ Return

Spec == Init /\ [][Next]_vars

----------------------------------------------------------------------------
(* The history conversion on its own: every day list up to the bounds *)

InitConv ==
    /\ cfg = DefaultConfig
    /\ svc = NoService
    /\ pc = "parsed"
    /\ call = NoCall
    /\ sent = <<>>
    /\ \E d \in DayLists :
            response = [status |-> StatusOK,
                        body |-> Json([forecast |-> [forecastday |-> d]])]
    /\ result = NoResult
    /\ runs = 0

\* from_str::<WeatherApiHistoryData>(response_body)?.into()
ConvertHistory ==
    /\ pc = "parsed"
    /\ from_str_WeatherApiHistoryData(response.body).ok
    /\ result' = From_WeatherApiHistoryData(
                    from_str_WeatherApiHistoryData(response.body).v)
    /\ pc' = IF result'.kind = "Panic" THEN "aborted" ELSE "converted"
    /\ UNCHANGED <<cfg, svc, call, sent, response, runs>>

NextConv == ConvertHistory

SpecConv == InitConv /\ [][NextConv]_vars

----------------------------------------------------------------------------
(* The WeatherApi canonicalization on its own: readings whose pressure, wind
   and visibility run over fractions, negative numbers and numbers whose
   result does not fit a u16 *)

\* pressure_mb: 1010, 1005.25, 1013.2, 0, 0.5, -1010, 65535.75, 65536
PressureMbs == {Dy(1010, 0), Dy(4021, 2), Dy(16600269, 14), Dy(0, 0), Dy(1, 1),
                Dy(-1010, 0), Dy(262143, 2), Dy(65536, 0)}

\* wind_kph: 36, 25.5, 12.5, 13.3, 0, -36
WindKphs == {Dy(36, 0), Dy(51, 1), Dy(25, 1), Dy(13946061, 20), Dy(0, 0),
             Dy(-36, 0)}

\* vis_km: 10, 8.0625, 16.09, 0.009, 0, -1, 65.53125, 65.5625, 66
VisKms == {Dy(10, 0), Dy(129, 4), Dy(4217897, 18), Dy(2415919, 28), Dy(0, 0),
           Dy(-1, 0), Dy(2097, 5), Dy(1049, 4), Dy(66, 0)}

CanonReadings ==
    {[ReadingA EXCEPT !.pressure_mb = p, !.wind_kph = w, !.vis_km = v] :
        p \in PressureMbs, w \in WindKphs, v \in VisKms}

\* a 200 body of the current schema or of the history schema (one day, one
\* hour) has been received
InitCanon ==
    /\ cfg = DefaultConfig
    /\ svc = NoService
    /\ pc = "parsed"
    /\ call = NoCall
    /\ sent = <<>>
    /\ \E r \in CanonReadings :
          \E o \in {[current |-> r],
                    [forecast |-> [forecastday |-> <<[hour |-> <<r>>]>>]]} :
            response = [status |-> StatusOK, body |-> Json(o)]
    /\ result = NoResult
    /\ runs = 0

\* from_str::<WeatherApiData>(response_body)?.into()
ConvertCurrent ==
    /\ pc = "parsed"
    /\ from_str_WeatherApiData(response.body).ok
    /\ result' = Ok(From_WeatherApiData(from_str_WeatherApiData(response.body).v))
    /\ pc' = "converted"
    /\ UNCHANGED <<cfg, svc, call, sent, response, runs>>

NextCanon ==
    \/ ConvertCurrent
    \/ ConvertHistory

SpecCanon == InitCanon /\ [][NextCanon]_vars

----------------------------------------------------------------------------
(* The OpenWeather canonicalization on its own: payloads whose numbers run
   over the ends of their types and whose weather list has 0, 1 or 2 entries *)

OwTemps        == {Dy(51, 1), Dy(-3, 0)}
OwHumidities   == {0, 50, U8Max}
OwPressures    == {0, 1010, U16Max}
OwWinds        == {Dy(10, 0), Dy(0, 0)}
OwVisibilities == {0, 10000, U16Max}

OwPayloads ==
    {[main |-> [temp |-> t, humidity |-> h, pressure |-> p],
      weather |-> w, visibility |-> v, wind |-> [speed |-> s]] :
        t \in OwTemps, h \in OwHumidities, p \in OwPressures,
        w \in WeatherLists, v \in OwVisibilities, s \in OwWinds}

\* a 200 body of the OpenWeather success schema has been received
InitOw ==
    /\ cfg = DefaultConfig
    /\ svc = NoService
    /\ pc = "parsed"
    /\ call = NoCall
    /\ sent = <<>>
    /\ \E o \in OwPayloads : response = [status |-> StatusOK, body |-> Json(o)]
    /\ result = NoResult
    /\ runs = 0

\* from_str::<OpenWeatherData>(response_body)?.into()
ConvertOpenWeather ==
    /\ pc = "parsed"
    /\ from_str_OpenWeatherData(response.body).ok
    /\ result' = Ok(From_OpenWeatherData(from_str_OpenWeatherData(response.body).v))
    /\ pc' = "converted"
    /\ UNCHANGED <<cfg, svc, call, sent, response, runs>>

NextOw == ConvertOpenWeather

SpecOw == InitOw /\ [][NextOw]_vars

----------------------------------------------------------------------------
(* The CLI: every action is one run of entry_point, up to its first await *)

CliUrls      == {None, Some(<<>>), Some(<<"a", "/">>)}
CliAddresses == {"Kyiv"}
CliDates     == {None, Some("2023-10-17 00:00"), Some("InvalidDate")}
CliStatuses  == {200, 404}
CliBodies(p) ==
    IF p = "OpenWeather"
    THEN {NotJson, Json(OpenWeatherGood(<<>>)),
          Json([cod |-> "404", message |-> <<"n", "o">>])}
    ELSE {NotJson, Json([current |-> ReadingA]),
          Json([forecast |-> [forecastday |-> <<[hour |-> <<ReadingA>>]>>]]),
          Json([error |-> [code |-> 1006, message |-> <<"n", "o">>]])}

\* Command::Configure: configure_provider, then confy::store
Configure(provider, url, api_key) ==
    /\ pc = "idle"
    /\ runs < MaxRuns
    /\ runs' = runs + 1
    /\ cfg' = configure_provider(cfg, provider, url, api_key)
    /\ UNCHANGED <<svc, pc, call, sent, response, result>>

\* Command::SelectProvider: select_provider, then confy::store
SelectProvider(provider) ==
    /\ pc = "idle"
    /\ runs < MaxRuns
    /\ runs' = runs + 1
    /\ cfg' = select_provider(cfg, provider)
    /\ UNCHANGED <<svc, pc, call, sent, response, result>>

\* Command::Get storing the provider it used as the selected one
Get_Remember(address, date, provider, tz, now) ==
    /\ pc = "idle"
    /\ runs < MaxRuns
    /\ runs' = runs + 1
    /\ LET p == IF provider = None THEN cfg.selected_provider ELSE provider[1]
           weather_api == WeatherApiOf(p, cfg)
       IN  /\ call' = InfoCall(p, address, date, Len(sent))
           /\ cfg' = select_provider(cfg, p)
           /\ IF weather_api.kind = "Ok"
              THEN /\ svc' = weather_api.data
                   /\ StartCall(weather_api.data, address, date, tz, now)
              ELSE /\ svc' = NoService
                   /\ result' = weather_api
                   /\ pc' = "done"
                   /\ UNCHANGED <<sent, response>>

\* Command::Get: pick the provider, then get_weather_info up to its await
Get(address, date, provider, tz, now) ==
    /\ pc = "idle"
    /\ runs < MaxRuns
    /\ runs' = runs + 1
    /\ LET p == IF provider = None THEN cfg.selected_provider ELSE provider[1]
           weather_api == WeatherApiOf(p, cfg)
       IN  /\ call' = InfoCall(p, address, date, Len(sent))
           /\ IF weather_api.kind = "Ok"
              THEN /\ svc' = weather_api.data
                   /\ StartCall(weather_api.data, address, date, tz, now)
              ELSE /\ svc' = NoService
                   /\ result' = weather_api
                   /\ pc' = "done"
                   /\ UNCHANGED <<sent, response>>
    /\ UNCHANGED cfg

\* the process ends: main reports the error, or the view has been printed
Exit ==
    /\ pc \in {"done", "aborted"}
    /\ call.op = "get_weather_info"
    /\ pc' = "idle"
    /\ svc' = NoService
    /\ call' = NoCall
    /\ response' = NoResponse
    /\ result' = NoResult
    /\ UNCHANGED <<cfg, sent, runs>>

NextCli ==
    \/ \E provider \in Providers, url \in CliUrls, api_key \in ApiKeys :
            Configure(provider, url, api_key)
    \/ \E provider \in Providers : SelectProvider(provider)
    \/ \E address \in CliAddresses, date \in CliDates,
          provider \in {None} \cup {Some(p) : p \in Providers} :
            Get(address, date, provider, 0, 0)
    \/ SendFails
    \/ \E status \in CliStatuses : SendCompletes(status)
    \/ TextFails
    \/ \E body \in CliBodies(svc.provider) : TextCompletes(body)
    \/ Exit

SpecCli == Init /\ [][NextCli]_vars

----------------------------------------------------------------------------
(* Provider names: Display and FromStr *)

MaxUpper == 2       \* upper-case letters put into a provider name

LowerLetters == <<"a", "b", "c", "d", "e", "f", "g", "h", "i", "j", "k", "l", "m",
                  "n", "o", "p", "q", "r", "s", "t", "u", "v", "w", "x", "y", "z">>
UpperLetters == <<"A", "B", "C", "D", "E", "F", "G", "H", "I", "J", "K", "L", "M",
                  "N", "O", "P", "Q", "R", "S", "T", "U", "V", "W", "X", "Y", "Z">>

\* u8::to_ascii_lowercase / to_ascii_uppercase: only 'A'..'Z' / 'a'..'z' change
AsciiLower(c) ==
    IF \E i \in DOMAIN UpperLetters : UpperLetters[i] = c
    THEN LowerLetters[CHOOSE i \in DOMAIN UpperLetters : UpperLetters[i] = c]
    ELSE c

AsciiUpper(c) ==
    IF \E i \in DOMAIN LowerLetters : LowerLetters[i] = c
    THEN UpperLetters[CHOOSE i \in DOMAIN LowerLetters : LowerLetters[i] = c]
    ELSE c

\* str::to_ascii_lowercase
to_ascii_lowercase(str) == [i \in DOMAIN str |-> AsciiLower(str[i])]

\* impl Display for Provider
to_string(provider) ==
    CASE provider = "OpenWeather"  -> <<"o", "p", "e", "n", "-", "w", "e", "a", "t", "h", "e", "r">>
      [] provider = "WeatherApi"   -> <<"w", "e", "a", "t", "h", "e", "r", "-", "a", "p", "i">>
      [] provider = "AccuWeather"  -> <<"a", "c", "c", "u", "-", "w", "e", "a", "t", "h", "e", "r">>
      [] provider = "AerisWeather" -> <<"a", "e", "r", "i", "s", "-", "w", "e", "a", "t", "h", "e", "r">>

\* Provider::from_str comparing the string as it is
from_str_Exact(str) ==
    CASE str = <<"o", "p", "e", "n", "-", "w", "e", "a", "t", "h", "e", "r">> -> Ok("OpenWeather")
      [] str = <<"w", "e", "a", "t", "h", "e", "r", "-", "a", "p", "i">> -> Ok("WeatherApi")
      [] str = <<"a", "c", "c", "u", "-", "w", "e", "a", "t", "h", "e", "r">> -> Ok("AccuWeather")
      [] str = <<"a", "e", "r", "i", "s", "-", "w", "e", "a", "t", "h", "e", "r">> -> Ok("AerisWeather")
      [] OTHER -> Err("ProviderNotFound", <<>>)

\* impl FromStr for Provider
from_str(str) ==
    LET lowered == to_ascii_lowercase(str) IN
    CASE lowered = <<"o", "p", "e", "n", "-", "w", "e", "a", "t", "h", "e", "r">> -> Ok("OpenWeather")
      [] lowered = <<"w", "e", "a", "t", "h", "e", "r", "-", "a", "p", "i">> -> Ok("WeatherApi")
      [] lowered = <<"a", "c", "c", "u", "-", "w", "e", "a", "t", "h", "e", "r">> -> Ok("AccuWeather")
      [] lowered = <<"a", "e", "r", "i", "s", "-", "w", "e", "a", "t", "h", "e", "r">> -> Ok("AerisWeather")
      [] OTHER -> Err("ProviderNotFound", <<>>)

\* the names with up to MaxUpper letters, or all of them, in upper case
CaseVariants(name) ==
    {[i \in DOMAIN name |-> IF i \in S THEN AsciiUpper(name[i]) ELSE name[i]] :
        S \in {T \in SUBSET DOMAIN name : Cardinality(T) <= MaxUpper}
               \cup {DOMAIN name}}

\* characters that are not ASCII letters: punctuation, a blank, a digit and
\* the Cyrillic small letter ie, which looks like 'e'
OtherChars == {"_", " ", "0", "U+0435"}

\* strings that are no provider name: a name with one character replaced,
\* added or removed, the empty string, and the names the tests reject
NearNames(name) ==
    {[name EXCEPT ![i] = c] : i \in DOMAIN name, c \in OtherChars}
    \cup {Append(name, c) : c \in OtherChars \cup {"r"}}
    \cup {<<c>> \o name : c \in OtherChars}
    \cup {pop(name)}

NameInputs ==
    UNION {CaseVariants(to_string(p)) \cup NearNames(to_string(p)) : p \in Providers}
    \cup {<<>>, <<"i", "n", "v", "a", "l", "i", "d", "-", "p", "r", "o", "v", "i", "d", "e", "r">>, <<"u", "n", "k", "n", "o", "w", "n", "-", "p", "r", "o", "v", "i", "d", "e", "r">>}

\* call: a name parsed on its own has origin None, the name of provider p
\* written by to_string has origin Some(p)
ToStringCall(p)      == [op |-> "to_string", provider |-> p]
FromStrCall(str, origin) == [op |-> "from_str", s |-> str, origin |-> origin]

\* provider.to_string()
Display(p) ==
    /\ pc = "idle"
    /\ call' = ToStringCall(p)
    /\ result' = Ok(to_string(p))
    /\ pc' = "shown"
    /\ UNCHANGED <<cfg, svc, sent, response, runs>>

\* Provider::from_str of the string to_string has written
FromStrShown ==
    /\ pc = "shown"
    /\ call' = FromStrCall(result.data, Some(call.provider))
    /\ result' = from_str(result.data)
    /\ pc' = "named"
    /\ UNCHANGED <<cfg, svc, sent, response, runs>>

\* Provider::from_str of a string the user typed
FromStr(str) ==
    /\ pc = "idle"
    /\ call' = FromStrCall(str, None)
    /\ result' = from_str(str)
    /\ pc' = "named"
    /\ UNCHANGED <<cfg, svc, sent, response, runs>>

NextProv ==
    \/ \E p \in Providers : Display(p)
    \/ FromStrShown
    \/ \E str \in NameInputs : FromStr(str)

SpecProv == Init /\ [][NextProv]_vars

----------------------------------------------------------------------------
(* Properties *)

\* a get_weather_data call (direct, or inside get_weather_info) is at or past
\* its first await, or has returned
InDataCall == call.op \in {"get_weather_data", "get_weather_info"}

\* the date string matches a recognized format (in some environment)
Recognized(date) ==
    \E tz \in TzOffsets, now \in NowTimes :
        parse_datetime_from_str(date[1], tz, now).ok

\* the call has read the response body and returned (or panicked)
BodyRead ==
    /\ InDataCall
    /\ svc # NoService
    /\ pc \in {"done", "aborted"}
    /\ response.status # 0
    /\ ~(result.kind = "Err" /\ result.err = "BodyText")

IsSuccessStatus(status) == status \in 200..299

\* the body fits the success schema the call's provider and date select
FitsSuccessSchema ==
    IF svc.provider = "OpenWeather" THEN from_str_OpenWeatherData(response.body).ok
    ELSE IF call.date # None THEN from_str_WeatherApiHistoryData(response.body).ok
    ELSE from_str_WeatherApiData(response.body).ok

FitsErrorSchema ==
    IF svc.provider = "OpenWeather"
    THEN from_str_OpenWeatherErrorData(response.body).ok
    ELSE from_str_WeatherApiErrorData(response.body).ok

\* the message field of the error payload
PayloadMessage ==
    IF svc.provider = "OpenWeather" THEN response.body.obj.message
    ELSE response.body.obj.error.message

\* C1: for both providers, construction with an empty url, an empty api key
\* or both returns the Creation error and no client; with both non-empty it
\* returns a client.
Thm_C1 ==
    call.op = "new" =>
        IF call.url = <<>> \/ call.api_key = <<>>
        THEN result = Err("Creation", <<>>) /\ svc = NoService
        ELSE result.kind = "Ok" /\ svc # NoService /\ svc.provider = call.provider

Wit_C1 ==
    /\ call.op = "new"
    /\ call.provider = "WeatherApi"
    /\ call.url = <<>>
    /\ call.api_key # <<>>
    /\ result = Err("Creation", <<>>)

\* C2: a get_weather_data call whose date is supplied and matches no
\* recognized format has returned DateTimeParse, and the request log is as
\* long as it was when the call began.
Thm_C2 ==
    (call.op = "get_weather_data" /\ call.date # None /\ ~Recognized(call.date)) =>
        /\ pc = "done"
        /\ result.kind = "Err"
        /\ result.err = "DateTimeParse"
        /\ Len(sent) = call.sent0

Wit_C2 ==
    /\ call.op = "get_weather_data"
    /\ call.date = Some("InvalidDate")
    /\ pc = "done"
    /\ result.err = "DateTimeParse"
    /\ call.sent0 > 0

SuccessSchemaOutcome ==
    IF ~FitsSuccessSchema THEN Err("JsonParse", <<>>)
    ELSE IF svc.provider = "OpenWeather"
    THEN Ok(From_OpenWeatherData(from_str_OpenWeatherData(response.body).v))
    ELSE IF call.date # None
    THEN From_WeatherApiHistoryData(from_str_WeatherApiHistoryData(response.body).v)
    ELSE Ok(From_WeatherApiData(from_str_WeatherApiData(response.body).v))

ErrorSchemaOutcome ==
    IF ~FitsErrorSchema THEN Err("JsonParse", <<>>)
    ELSE IF svc.provider = "OpenWeather" THEN Err("Server", PayloadMessage)
    ELSE Err("Server", Yellow(PayloadMessage))

\* C4 as stated: every success status (any 2xx code) has the body read with
\* the success schema, every other status with the error schema.
Orig_C4 ==
    BodyRead =>
        result = IF IsSuccessStatus(response.status) THEN SuccessSchemaOutcome
                 ELSE ErrorSchemaOutcome

\* C4 as amended: status 200 OK has the body read with the success schema;
\* every other status, the other success codes included, has it read with
\* the error schema, whichever code it is.
Thm_C4 ==
    BodyRead =>
        result = IF response.status = 200 THEN SuccessSchemaOutcome
                 ELSE ErrorSchemaOutcome

Wit_C4 ==
    /\ BodyRead
    /\ response.status = 201
    /\ svc.provider = "WeatherApi"
    /\ FitsSuccessSchema
    /\ result = Err("JsonParse", <<>>)

\* C5 as stated: a success status (any 2xx code) with a body that is not
\* JSON or does not fit the success schema returns JsonParse.
Orig_C5 ==
    (BodyRead /\ IsSuccessStatus(response.status) /\ ~FitsSuccessSchema) =>
        result = Err("JsonParse", <<>>)

\* C5 as amended: status 200 OK with a body that is not JSON or does not fit
\* the success schema returns JsonParse; no call returns a WeatherData for a
\* body that does not fit the success schema.
Thm_C5 ==
    /\ (BodyRead /\ response.status = 200 /\ ~FitsSuccessSchema) =>
            result = Err("JsonParse", <<>>)
    /\ (BodyRead /\ result.kind = "Ok") => FitsSuccessSchema

Wit_C5 ==
    /\ BodyRead
    /\ response.status = 200
    /\ svc.provider = "OpenWeather"
    /\ response.body.valid
    /\ ~FitsSuccessSchema
    /\ result = Err("JsonParse", <<>>)

\* C6: a WeatherApi call with a date, answered 200 with a history body whose
\* day list is empty or whose last day has no hour, returns an error value
\* (no WeatherData, no abort).
Claim_C6 ==
    (/\ BodyRead
     /\ svc.provider = "WeatherApi"
     /\ call.date # None
     /\ response.status = 200
     /\ FitsSuccessSchema
     /\ LET days == response.body.obj.forecast.forecastday
        IN  days = <<>> \/ days[Len(days)].hour = <<>>)
    => result.kind = "Err"

\* C7: for a history response with at least one day whose last day has at
\* least one hour, the WeatherData is the conversion of the last day's first
\* hour entry, whatever the other days and hours hold.
Thm_C7 ==
    LET days == response.body.obj.forecast.forecastday IN
    (pc \in {"converted", "aborted"} /\ days # <<>> /\ days[Len(days)].hour # <<>>) =>
        LET entry == days[Len(days)].hour[1] IN
        /\ pc = "converted"
        /\ result.kind = "Ok"
        /\ result.data.temp = entry.temp_c
        /\ result.data.humidity = entry.humidity
        /\ result.data.pressure = F32AsU16(entry.pressure_mb)
        /\ result.data.wind_speed = km_per_hour_to_m_per_sec(entry.wind_kph)
        /\ result.data.visibility = km_to_m(entry.vis_km)
        /\ result.data.description = entry.condition.text

Wit_C7 ==
    /\ pc = "converted"
    /\ response.body.obj.forecast.forecastday =
            <<[hour |-> <<ReadingA, ReadingA>>], [hour |-> <<ReadingB, ReadingA>>]>>
    /\ result.data.description = "Rainy"
    /\ result.data.visibility = 8062

\* C8: get_weather_info for AccuWeather or AerisWeather returns
\* ProviderNotImplemented whatever the configuration, with no provider client
\* built and no request issued in the call.
Thm_C8 ==
    (call.op = "get_weather_info" /\ call.provider \in NOT_IMPLEMENTED_PROVIDERS) =>
        /\ pc = "done"
        /\ result = Err("ProviderNotImplemented", <<>>)
        /\ svc = NoService
        /\ Len(sent) = call.sent0

Wit_C8 ==
    /\ call.op = "get_weather_info"
    /\ call.provider = "AccuWeather"
    /\ cfg.accu_weather = ProviderConfig(<<"a", "/">>, Some(<<"k">>))
    /\ result = Err("ProviderNotImplemented", <<>>)

\* C9: construction leaves the request log alone; the step that starts a
\* get_weather_data call appends exactly one GET when the date is absent or
\* parses and nothing otherwise; no later step of the call (a failed send, a
\* failed body read, the interpretation) appends anything.
Thm_C9 ==
    [][/\ (pc = "idle" /\ call'.op = "new") => sent' = sent
       /\ (pc = "idle" /\ call'.op = "get_weather_data") =>
            IF call'.date = None \/ Recognized(call'.date)
            THEN /\ Len(sent') = Len(sent) + 1
                 /\ SubSeq(sent', 1, Len(sent)) = sent
                 /\ sent'[Len(sent')].method = "GET"
            ELSE sent' = sent
       /\ pc # "idle" => sent' = sent]_vars

Wit_C9 ==
    /\ call.op = "get_weather_data"
    /\ pc = "done"
    /\ result = Err("Request", <<>>)
    /\ Len(sent) = call.sent0 + 1

\* C10: construction stores the url without its one trailing '/', if it has
\* one, and unchanged otherwise; so u and u followed by '/' are both stored
\* as u, and of several trailing '/' only one is removed.
Thm_C10 ==
    (call.op = "new" /\ result.kind = "Ok") =>
        IF call.url[Len(call.url)] = "/"
        THEN svc.url \o <<"/">> = call.url
        ELSE svc.url = call.url

Wit_C10 ==
    /\ call.op = "new"
    /\ result.kind = "Ok"
    /\ call.url = <<"a", "/">>
    /\ svc.url = <<"a">>

\* the call has issued its request: the last entry of the log is this call's
RequestSent ==
    /\ call.op = "get_weather_data"
    /\ svc # NoService
    /\ Len(sent) = call.sent0 + 1

LastRequest == sent[Len(sent)]

\* C11: a WeatherApi call with a date sends its request to the stored url
\* followed by /history.json and reads a 200 body with the history schema; a
\* WeatherApi call without a date sends it to the stored url followed by
\* /current.json and reads a 200 body with the current schema; an OpenWeather
\* call sends its request to the stored url unchanged, date or no date.
Thm_C11 ==
    /\ (RequestSent /\ svc.provider = "WeatherApi") =>
          /\ (call.date # None) <=>
                (LastRequest.url = svc.url \o <<"/", "history.json">>)
          /\ (call.date = None) <=>
                (LastRequest.url = svc.url \o <<"/", "current.json">>)
    /\ (RequestSent /\ svc.provider = "OpenWeather") =>
          LastRequest.url = svc.url
    /\ (BodyRead /\ svc.provider = "WeatherApi" /\ response.status = StatusOK) =>
          IF call.date # None
          THEN LET d == from_str_WeatherApiHistoryData(response.body)
               IN  result = IF d.ok THEN From_WeatherApiHistoryData(d.v)
                            ELSE Err("JsonParse", <<>>)
          ELSE LET d == from_str_WeatherApiData(response.body)
               IN  result = IF d.ok THEN Ok(From_WeatherApiData(d.v))
                            ELSE Err("JsonParse", <<>>)

\* a dated WeatherApi call that went to history.json and rejected a 200 body of
\* the current schema
Wit_C11 ==
    /\ RequestSent
    /\ svc.provider = "WeatherApi"
    /\ call.date # None
    /\ LastRequest.url = svc.url \o <<"/", "history.json">>
    /\ BodyRead
    /\ response.status = StatusOK
    /\ from_str_WeatherApiData(response.body).ok
    /\ result = Err("JsonParse", <<>>)

\* C12: every request carries the address of the call, as given, under q and
\* the stored api key under appid (OpenWeather) or key (WeatherApi); it
\* carries a timestamp under dt (OpenWeather) or unixdt (WeatherApi) exactly
\* when the call has a date.
Thm_C12 ==
    RequestSent =>
        LET params == LastRequest.params IN
        /\ params.q = call.address
        /\ IF svc.provider = "OpenWeather"
           THEN /\ {"q", "appid"} \subseteq DOMAIN params
                /\ params.appid = svc.api_key
                /\ ("dt" \in DOMAIN params) <=> (call.date # None)
                /\ "key" \notin DOMAIN params /\ "unixdt" \notin DOMAIN params
           ELSE /\ {"q", "key"} \subseteq DOMAIN params
                /\ params.key = svc.api_key
                /\ ("unixdt" \in DOMAIN params) <=> (call.date # None)
                /\ "appid" \notin DOMAIN params /\ "dt" \notin DOMAIN params

\* an OpenWeather request for an address that names no city, without a date
Wit_C12 ==
    /\ RequestSent
    /\ svc.provider = "OpenWeather"
    /\ call.address = "Invalid City"
    /\ call.date = None
    /\ LastRequest.params.q = "Invalid City"
    /\ LastRequest.params.appid = svc.api_key
    /\ "dt" \notin DOMAIN LastRequest.params

\* C13: for both providers the DateTimeParse error of a call carries the date
\* string the caller supplied, and nothing else, as its payload.
Claim_C13 ==
    (call.op = "get_weather_data" /\ result.kind = "Err"
        /\ result.err = "DateTimeParse") =>
        result.msg = call.date

\* C14: for both providers, when the status is not a success code and the
\* body is not JSON or does not fit the provider's error schema, the call
\* returns JsonParse: neither a Server error nor a WeatherData.
Thm_C14 ==
    (BodyRead /\ ~IsSuccessStatus(response.status) /\ ~FitsErrorSchema) =>
        /\ result.kind = "Err"
        /\ result.err = "JsonParse"
        /\ result.data = NoData

\* a 500 answer to a WeatherApi call whose body is a current-weather payload
Wit_C14 ==
    /\ BodyRead
    /\ svc.provider = "WeatherApi"
    /\ response.status = 500
    /\ response.body.valid
    /\ from_str_WeatherApiData(response.body).ok
    /\ ~FitsErrorSchema
    /\ result = Err("JsonParse", <<>>)

\* C15: whatever the time and the time zone of the run, a call with the date
\* "2023-10-15" attaches the timestamp of 2023-10-15 00:00:00 UTC, that is
\* 1697328000, under dt (OpenWeather) or unixdt (WeatherApi).
Claim_C15 ==
    (RequestSent /\ call.date = Some("2023-10-15")) =>
        IF svc.provider = "OpenWeather"
        THEN LastRequest.params.dt = 1697328000
        ELSE LastRequest.params.unixdt = 1697328000

\* the reading a canonicalization has converted
Converted == pc = "converted" /\ result.kind = "Ok"

ReadingOf(body) ==
    IF "current" \in DOMAIN body.obj THEN body.obj.current
    ELSE body.obj.forecast.forecastday[1].hour[1]

\* the integer part of a non-negative f32 below 2^24, kept within a u16
RECURSIVE Halve(_, _)
Halve(n, k) == IF k = 0 THEN n ELSE Halve(n \div 2, k - 1)

TruncU16(a) ==
    LET t == IF a.m = 0 \/ a.s < 0 THEN 0
             ELSE IF a.e >= 0 THEN U16Max + 1
             ELSE Halve(a.m, -a.e)
    IN  IF t > U16Max THEN U16Max ELSE t

\* C16: for a WeatherApi reading, current or history, the visibility is the
\* f32 product of vis_km and 1000 with its fraction dropped (kept within a
\* u16), so that 10.0 km gives 10000 m and 8.0625 km gives 8062 m, and the
\* pressure is pressure_mb with its fraction dropped (kept within a u16).
Thm_C16 ==
    Converted =>
        LET r == ReadingOf(response.body) IN
        /\ result.data.visibility = TruncU16(F32Mul(r.vis_km, Dy(1000, 0)))
        /\ result.data.pressure = TruncU16(r.pressure_mb)
        /\ r.vis_km = Dy(10, 0) => result.data.visibility = 10000
        /\ r.vis_km = Dy(129, 4) => result.data.visibility = 8062
        /\ r.pressure_mb = Dy(4021, 2) => result.data.pressure = 1005

\* a history reading of 8.0625 km and 1005.25 mb converted to 8062 m, 1005 mb
Wit_C16 ==
    /\ Converted
    /\ "forecast" \in DOMAIN response.body.obj
    /\ ReadingOf(response.body).vis_km = Dy(129, 4)
    /\ ReadingOf(response.body).pressure_mb = Dy(4021, 2)
    /\ result.data.visibility = 8062
    /\ result.data.pressure = 1005

\* C17: for a WeatherApi reading, current or history, the wind speed is the
\* f32 product of wind_kph and the f32 quotient 1000/3600; for 36.0 km/h it
\* is exactly 10.0 m/s (and for 12.5 km/h the f32 14563556 * 2^-22).
Thm_C17 ==
    Converted =>
        LET r == ReadingOf(response.body) IN
        /\ result.data.wind_speed = F32Mul(r.wind_kph, F32DivInt(1000, 3600))
        /\ r.wind_kph = Dy(36, 0) => result.data.wind_speed = Dy(10, 0)
        /\ r.wind_kph = Dy(-36, 0) => result.data.wind_speed = Dy(-10, 0)
        /\ r.wind_kph = Dy(25, 1) =>
                result.data.wind_speed = [s |-> 1, m |-> 14563556, e |-> -22]

\* a current reading of 36.0 km/h converted to exactly 10.0 m/s
Wit_C17 ==
    /\ Converted
    /\ "current" \in DOMAIN response.body.obj
    /\ ReadingOf(response.body).wind_kph = Dy(36, 0)
    /\ result.data.wind_speed = Dy(10, 0)

\* C18: canonicalizing a deserialized WeatherApi reading never aborts and
\* never returns an error, whatever pressure_mb, wind_kph and vis_km are
\* (negative, or with a result above 65535): it ends with a WeatherData whose
\* pressure and visibility are in 0..65535.
Thm_C18 ==
    /\ pc # "aborted"
    /\ pc = "converted" =>
        /\ result.kind = "Ok"
        /\ result.data.pressure \in 0..65535
        /\ result.data.visibility \in 0..65535
        /\ \/ result.data.wind_speed.m = 0
           \/ result.data.wind_speed.m \in TwoTo23..(TwoTo24 - 1)

\* a negative pressure and a visibility of 66 km end as 0 and 65535
Wit_C18 ==
    /\ Converted
    /\ ReadingOf(response.body).pressure_mb = Dy(-1010, 0)
    /\ ReadingOf(response.body).vis_km = Dy(66, 0)
    /\ ReadingOf(response.body).wind_kph = Dy(-36, 0)
    /\ result.data.pressure = 0
    /\ result.data.visibility = 65535

\* C19: canonicalizing an OpenWeather success payload copies temp, humidity,
\* pressure, wind speed and visibility unchanged into the WeatherData, and a
\* payload whose weather list is empty still converts, with the empty string
\* as description.
Thm_C19 ==
    pc = "converted" =>
        LET o == response.body.obj IN
        /\ result.kind = "Ok"
        /\ result.data.temp = o.main.temp
        /\ result.data.humidity = o.main.humidity
        /\ result.data.pressure = o.main.pressure
        /\ result.data.wind_speed = o.wind.speed
        /\ result.data.visibility = o.visibility
        /\ Len(o.weather) = 0 => result.data.description = ""

\* a payload without weather entries and with the largest pressure, converted
Wit_C19 ==
    /\ pc = "converted"
    /\ Len(response.body.obj.weather) = 0
    /\ response.body.obj.main.pressure = U16Max
    /\ response.body.obj.visibility = 10000
    /\ result.kind = "Ok"
    /\ result.data.pressure = U16Max
    /\ result.data.visibility = 10000
    /\ result.data.description = ""

\* two characters are equal, or the two cases of one ASCII letter
SameLetter(c, d) ==
    \/ c = d
    \/ \E i \in DOMAIN LowerLetters :
            {c, d} = {LowerLetters[i], UpperLetters[i]}

\* two strings are equal up to the case of their ASCII letters
EqIgnoreAsciiCase(a, b) ==
    /\ Len(a) = Len(b)
    /\ \A i \in DOMAIN a : SameLetter(a[i], b[i])

\* C20: from_str of the string to_string writes for a provider returns that
\* provider; from_str returns provider p for exactly the strings equal to the
\* name of p up to the case of ASCII letters, and ProviderNotFound for every
\* other string.
Thm_C20 ==
    call.op = "from_str" =>
        /\ call.origin # None =>
                result.kind = "Ok" /\ result.data = call.origin[1]
        /\ \A p \in Providers :
                EqIgnoreAsciiCase(call.s, to_string(p)) <=>
                    (result.kind = "Ok" /\ result.data = p)
        /\ (\A p \in Providers : ~EqIgnoreAsciiCase(call.s, to_string(p))) =>
                (result.kind = "Err" /\ result.err = "ProviderNotFound")

\* "Weather-Api" typed by the user is read as WeatherApi
Wit_C20 ==
    /\ call.op = "from_str"
    /\ call.origin = None
    /\ call.s = <<"W", "e", "a", "t", "h", "e", "r", "-", "A", "p", "i">>
    /\ result.kind = "Ok"
    /\ result.data = "WeatherApi"

\* C21: a Configure step for provider p with url and api key sets the config
\* of p to the given url, or to p's previous url when no url is given, with
\* the api key set to the given key; it leaves the configs of the other three
\* providers and selected_provider as they were.
Thm_C21 ==
    [][\A p \in Providers, url \in CliUrls, api_key \in ApiKeys :
          Configure(p, url, api_key) =>
            /\ ConfigOf(cfg', p).url =
                    IF url = None THEN ConfigOf(cfg, p).url ELSE url[1]
            /\ ConfigOf(cfg', p).api_key = Some(api_key)
            /\ \A q \in Providers \ {p} : ConfigOf(cfg', q) = ConfigOf(cfg, q)
            /\ cfg'.selected_provider = cfg.selected_provider]_vars

\* WeatherApi configured with a url, then OpenWeather with a key alone, while
\* AccuWeather stays selected
Wit_C21 ==
    /\ cfg.selected_provider = "AccuWeather"
    /\ cfg.weather_api = ProviderConfig(<<"a", "/">>, Some(<<"k">>))
    /\ cfg.open_weather = ProviderConfig(DefaultConfig.open_weather.url, Some(<<"k">>))
    /\ cfg.accu_weather = DefaultConfig.accu_weather
    /\ cfg.aeris_weather = DefaultConfig.aeris_weather

\* C22: selected_provider starts as OpenWeather; a SelectProvider step for p
\* sets it to p and leaves the url and api key of the four provider configs
\* as they were; every other step leaves selected_provider as it was, so it
\* is always the argument of the most recent SelectProvider.
Thm_C22 ==
    /\ cfg.selected_provider = "OpenWeather"
    /\ [][/\ \A p \in Providers :
                SelectProvider(p) =>
                    /\ cfg'.selected_provider = p
                    /\ \A q \in Providers : ConfigOf(cfg', q) = ConfigOf(cfg, q)
          /\ (\A p \in Providers : ~SelectProvider(p)) =>
                cfg'.selected_provider = cfg.selected_provider]_vars

\* AerisWeather selected in a run of three commands that configured WeatherApi
Wit_C22 ==
    /\ runs = 3
    /\ cfg.selected_provider = "AerisWeather"
    /\ cfg.weather_api = ProviderConfig(<<"a", "/">>, Some(<<"k">>))
    /\ cfg.aeris_weather = DefaultConfig.aeris_weather

\* C23: a Get step works with the provider of the command line when there is
\* one and with the persisted selected_provider otherwise (the client it
\* builds, if any, is that provider's), and no step of a Get, from its start
\* to the exit of the process, changes the configuration.
Thm_C23 ==
    [][/\ \A address \in CliAddresses, date \in CliDates,
             provider \in {None} \cup {Some(p) : p \in Providers} :
            Get(address, date, provider, 0, 0) =>
                LET chosen == IF provider = None THEN cfg.selected_provider
                              ELSE provider[1]
                IN  /\ call'.provider = chosen
                    /\ svc'.provider \in {chosen, "none"}
                    /\ cfg' = cfg
       /\ (call.op = "get_weather_info" \/ call'.op = "get_weather_info") =>
            cfg' = cfg]_vars

\* a Get with the override WeatherApi while OpenWeather is selected, answered
\* with an error of the server
Wit_C23 ==
    /\ call.op = "get_weather_info"
    /\ call.provider = "WeatherApi"
    /\ svc.provider = "WeatherApi"
    /\ cfg.selected_provider = "OpenWeather"
    /\ result.kind = "Err"
    /\ result.err = "Server"

\* C24 as stated: no provider url held in the configuration ends in '/'.
Orig_C24 ==
    \A p \in Providers : ~ends_with(ConfigOf(cfg, p).url, "/")

\* the urls a Configure command can be given
GivenUrls == {url[1] : url \in CliUrls \ {None}}

\* str without its one trailing '/', if it has one
TrimmedOnce(str) == IF ends_with(str, "/") THEN pop(str) ELSE str

\* C24, amended: the configuration holds each provider url exactly as the
\* last Configure gave it (or the default), a trailing '/' included; the
\* separator is removed when a client is built, whose url is the configured
\* url without its one trailing '/'.
Thm_C24 ==
    /\ \A p \in Providers :
            ConfigOf(cfg, p).url \in {ConfigOf(DefaultConfig, p).url} \cup GivenUrls
    /\ (call.op = "get_weather_info" /\ svc # NoService) =>
            /\ svc.url = TrimmedOnce(ConfigOf(cfg, call.provider).url)
            /\ ~ends_with(svc.url, "/")

\* a client built from a configured url that ends in '/'
Wit_C24 ==
    /\ call.op = "get_weather_info"
    /\ call.provider = "OpenWeather"
    /\ cfg.open_weather.url = <<"a", "/">>
    /\ svc.provider = "OpenWeather"
    /\ svc.url = <<"a">>

\* the stage whose failure an error reports
StageOf(err) ==
    CASE err = "DateTimeParse" -> "parse"
      [] err = "Request"       -> "send"
      [] err = "BodyText"      -> "text"
      [] err \in {"JsonParse", "Server"} -> "interpret"
      [] OTHER -> "none"

\* C25: a get_weather_data call goes through date parse, send, read body and
\* interpret body in this order and ends at the first stage that fails with
\* that stage's error: a date that does not parse gives DateTimeParse with
\* nothing sent, whatever the host would do; a failed send gives Request with
\* no response read; a failed body read gives BodyText with no body kept; an
\* error of a later stage implies that the earlier stages were passed; and
\* once the call has ended with an error nothing more is sent.
Thm_C25 ==
    /\ [](/\ (call.op = "get_weather_data" /\ call.date # None
                /\ ~Recognized(call.date)) =>
                /\ pc = "done"
                /\ result.kind = "Err" /\ result.err = "DateTimeParse"
                /\ Len(sent) = call.sent0
                /\ response = NoResponse
          /\ (call.op = "get_weather_data" /\ result.kind = "Err") =>
                /\ StageOf(result.err) # "none"
                /\ StageOf(result.err) = "parse" <=> Len(sent) = call.sent0
                /\ StageOf(result.err) \in {"parse", "send"} <=>
                        response.status = 0
                /\ StageOf(result.err) \in {"parse", "send", "text"} =>
                        response.body = NoResponse.body)
    /\ [][/\ call.op = "get_weather_data" =>
                \/ pc = "send" /\ pc' \in {"text", "done"}
                \/ pc = "text" /\ pc' \in {"done", "aborted"}
                \/ pc = "done" /\ pc' = "idle" /\ call'.op = "none"
          /\ (call.op = "get_weather_data" /\ result.kind = "Err") =>
                (sent' = sent /\ call'.op = "none")]_vars

\* a call whose send failed: Request, and no response was read
Wit_C25 ==
    /\ call.op = "get_weather_data"
    /\ Len(sent) = call.sent0 + 1
    /\ result = Err("Request", <<>>)
    /\ response = NoResponse
    /\ pc = "done"

\* WeatherApiService::get_url / OpenWeatherApiService::get_url
get_url(s) == s.url

\* the api key a request carries
KeyOf(request) ==
    IF "appid" \in DOMAIN request.params THEN request.params.appid
    ELSE request.params.key

\* C26: once a client is constructed no step changes its url or its api key,
\* whether a call succeeds or fails; so get_url keeps returning the url fixed
\* at construction, and every request in the log carries the api key given at
\* construction.
Thm_C26 ==
    /\ [][svc # NoService =>
            /\ get_url(svc') = get_url(svc)
            /\ svc'.api_key = svc.api_key
            /\ svc'.provider = svc.provider]_vars
    /\ [](\A i \in DOMAIN sent : KeyOf(sent[i]) = svc.api_key)
    /\ [](call.op = "new" /\ result.kind = "Ok" =>
            /\ get_url(svc) = TrimmedOnce(call.url)
            /\ svc.api_key = call.api_key)

\* a second call on a client whose first call went out with the same key
Wit_C26 ==
    /\ svc # NoService
    /\ call.op = "get_weather_data"
    /\ Len(sent) = 2
    /\ call.sent0 = 1
    /\ KeyOf(sent[1]) = svc.api_key
    /\ KeyOf(sent[2]) = svc.api_key
    /\ result.kind = "Err"

\* C27: every constructed client, of either provider, holds a non-empty url
\* and a non-empty api key, whatever accepted inputs it was built from (the
\* url "/" included).
Claim_C27 ==
    svc # NoService => (svc.url # <<>> /\ svc.api_key # <<>>)

\* the configuration of the provider a Get works with
ChosenConfig == ConfigOf(cfg, call.provider)

\* C28: a Get for OpenWeather or WeatherApi whose configured api key is unset
\* ends with the ProviderConfig error, with no client built and no request
\* issued; the api keys are unset until a Configure, so a Get that has built
\* a client or issued a request works with a provider whose key is stored.
Thm_C28 ==
    /\ (call.op = "get_weather_info" /\ call.provider \in ImplementedProviders
            /\ ChosenConfig.api_key = None) =>
            /\ pc = "done"
            /\ result = Err("ProviderConfig", <<>>)
            /\ svc = NoService
            /\ Len(sent) = call.sent0
    /\ (call.op = "get_weather_info"
            /\ (svc # NoService \/ Len(sent) > call.sent0)) =>
            /\ ChosenConfig.api_key # None
            /\ runs >= 2
    /\ runs = 0 => \A p \in Providers : ConfigOf(cfg, p).api_key = None

\* a Get for WeatherApi before any Configure of WeatherApi, OpenWeather
\* being configured
Wit_C28 ==
    /\ call.op = "get_weather_info"
    /\ call.provider = "WeatherApi"
    /\ cfg.weather_api.api_key = None
    /\ cfg.open_weather.api_key = Some(<<"k">>)
    /\ result = Err("ProviderConfig", <<>>)
    /\ svc = NoService

\* C29: a Configure step that gives an empty url or an empty api key stores
\* them as given; a Get for OpenWeather or WeatherApi whose stored url or
\* stored api key is empty ends with the Creation error, with no client built
\* and no request issued.
Thm_C29 ==
    /\ [][\A p \in Providers, url \in CliUrls, api_key \in ApiKeys :
            (Configure(p, url, api_key) /\ (url = Some(<<>>) \/ api_key = <<>>)) =>
                /\ url # None => ConfigOf(cfg', p).url = url[1]
                /\ ConfigOf(cfg', p).api_key = Some(api_key)]_vars
    /\ []((/\ call.op = "get_weather_info"
           /\ call.provider \in ImplementedProviders
           /\ ChosenConfig.api_key # None
           /\ (ChosenConfig.url = <<>> \/ ChosenConfig.api_key[1] = <<>>)) =>
            /\ pc = "done"
            /\ result = Err("Creation", <<>>)
            /\ svc = NoService
            /\ Len(sent) = call.sent0)

\* OpenWeather configured with an empty api key, then asked for the weather
Wit_C29 ==
    /\ call.op = "get_weather_info"
    /\ call.provider = "OpenWeather"
    /\ cfg.open_weather = ProviderConfig(DefaultConfig.open_weather.url, Some(<<>>))
    /\ result = Err("Creation", <<>>)
    /\ svc = NoService
    /\ Len(sent) = 0

\* C30: for an OpenWeather success payload whose weather list has one or more
\* entries the description of the WeatherData is the description of the last
\* entry of the list, whatever the entries before it are.
Thm_C30 ==
    (pc = "converted" /\ "weather" \in DOMAIN response.body.obj
        /\ Len(response.body.obj.weather) >= 1) =>
        LET weather == response.body.obj.weather IN
        /\ result.kind = "Ok"
        /\ result.data.description = weather[Len(weather)].description
        /\ \A o \in OwPayloads :
              (Len(o.weather) >= 1 /\ o.weather[Len(o.weather)] = weather[Len(weather)]) =>
                    From_OpenWeatherData(o).description = result.data.description

\* "Rainy" then "Partly Cloudy" is described as "Partly Cloudy"
Wit_C30 ==
    /\ pc = "converted"
    /\ "weather" \in DOMAIN response.body.obj
    /\ response.body.obj.weather =
            <<[description |-> "Rainy"], [description |-> "Partly Cloudy"]>>
    /\ result.data.description = "Partly Cloudy"

====
